---- MODULE Spec2Model ----
(***************************************************************************)
(* wsd: a command-line WebSocket client.  The repository holds two         *)
(* versions of the message pump:                                           *)
(*                                                                         *)
(*   variant = "chan"    src/unnamed/part_000: inLoop and outLoop hand     *)
(*                       messages and errors to printReceivedMessages and  *)
(*                       printErrors over unbuffered channels;             *)
(*   variant = "direct"  src/main.go: inLoop and outLoop call              *)
(*                       printReceivedMessage and printError themselves.   *)
(*                                                                         *)
(* Both share main's shape: dial, (interactive mode) start outLoop and     *)
(* read standard input to its end, and only then start the inbound side    *)
(* and wait on the WaitGroup.                                              *)
(***************************************************************************)
EXTENDS Naturals, Sequences, FiniteSets

\* ------------------------------------------------------------------ bounds

\* Longest operator input (lines on standard input).
MaxLines == 2

\* Number of Read calls on the connection that return; after that the
\* network is silent and Read blocks.  Every line the operator has typed
\* takes one from this number, which bounds the input and network events of
\* a run together.
MaxReads == 3

\* bufSize: the -bufSize flag, here 2 bytes instead of the default 1024.
BufSize == 2

\* Frames on the wire are up to one byte longer than the buffer.
MaxFrameLen == BufSize + 1

\* What the operator types: m lines, the i-th being "line i" (every line
\* names its place in the input).
Typed(m) == [i \in 1..m |-> i]

\* Exit codes: os.Exit(0) or main returning; a panic or a runtime abort.
ExitOK == "0"
ExitAbort == "2"

EOF == "EOF"           \* io.EOF
ERR == "ERR"           \* any other error value

Min(a, b) == IF a < b THEN a ELSE b

\* The j-th frame the server sends, of length len: byte i is 10*j + i, so
\* every byte on the wire names its frame and its place in it.
Frame(j, len) == [i \in 1..len |-> 10 * j + i]

VARIABLES
    variant,    \* which version of the pump runs
    raw,        \* the -raw flag
    stdin,      \* lines still unread on standard input
    stdinOpen,  \* TRUE: after those the operator stays idle and the stream
                \* stays open; FALSE: end of input follows them
    linesRead,  \* lines scanner.Scan has returned so far
    mainpc,     \* position of main
    line,       \* main: the line being sent on out
    wg,         \* the WaitGroup counter
    chans,      \* channels made so far
    closed,     \* channels closed so far
    closeCalls, \* ws.Close calls on the dialled connection
    nilCloses,  \* ws.Close calls on a nil handle
    ws,         \* main: ws, "none" before dial, then "nil" or "conn"
    started,    \* the go statements executed, in order
    chanCloses, \* close calls on channels
    exit,       \* "none" while running, else the exit code
    outpc,      \* position of outLoop
    outmsg,     \* outLoop: msg
    outerr,     \* outLoop: err
    conn,       \* the ws.Write calls so far: <<msg, result>>
    inpc,       \* position of inLoop
    buf,        \* inLoop: msg, the reused buffer
    n,          \* inLoop: n
    inerr,      \* inLoop: err
    pending,    \* rest of the frame being read off the connection
    nframes,    \* frames the server has sent
    netlog,     \* the ws.Read calls that returned: <<"ok", bytes>>, <<"err", e>>
    prespc,     \* position of printReceivedMessages
    pn,         \* presenter: len(msg) of the slice it holds
    psnap,      \* the bytes under that slice when it was sent
    rendered,   \* the messages rendered so far
    pread,      \* presenter: which read (its place in netlog) filled its slice
    renderedFrom, \* for each message rendered, the read that produced it
    sinkpc,     \* position of printErrors
    sinkerr,    \* printErrors: err
    printed,    \* errors printed so far (stderr)
    stdout      \* the writes to standard output so far, one entry per write

vars == <<variant, raw, stdin, stdinOpen, linesRead, mainpc, line, wg, chans, closed,
          closeCalls, nilCloses, ws, started, chanCloses, exit, outpc, outmsg, outerr, conn, inpc, buf,
          n, inerr, pending, nframes, netlog, prespc, pn, psnap, rendered,
          pread, renderedFrom,
          sinkpc, sinkerr, printed, stdout>>

mainVars == <<stdin, stdinOpen, linesRead, mainpc, line, wg, chans, closed, closeCalls, nilCloses,
              ws, started, chanCloses>>
outVars  == <<outpc, outmsg, outerr, conn>>
inVars   == <<inpc, buf, n, inerr, pending, nframes, netlog>>
presVars == <<prespc, pn, psnap, rendered, pread, renderedFrom>>
sinkVars == <<sinkpc, sinkerr>>
cfgVars  == <<variant, raw>>

Running == exit = "none"

\* Raw mode never touches standard input, so one input (a line, then the
\* end of input) stands for all of them there.
Init ==
    /\ variant \in {"chan", "direct"}
    /\ raw \in BOOLEAN
    /\ stdin \in {Typed(m) : m \in IF raw THEN {1} ELSE 0..MaxLines}
    /\ stdinOpen \in IF raw THEN {FALSE} ELSE BOOLEAN
    /\ linesRead = <<>>
    /\ mainpc = "dial"
    /\ line = 0
    /\ wg = 0
    /\ chans = {}
    /\ closed = {}
    /\ closeCalls = 0
    /\ nilCloses = 0
    /\ ws = "none"
    /\ started = <<>>
    /\ chanCloses = 0
    /\ exit = "none"
    /\ outpc = "off"
    /\ outmsg = 0
    /\ outerr = ""
    /\ conn = <<>>
    /\ inpc = "off"
    /\ buf = [i \in 1..BufSize |-> 0]
    /\ n = 0
    /\ inerr = ""
    /\ pending = <<>>
    /\ nframes = 0
    /\ netlog = <<>>
    /\ prespc = "off"
    /\ pn = 0
    /\ psnap = <<>>
    /\ rendered = <<>>
    /\ pread = 0
    /\ renderedFrom = <<>>
    /\ sinkpc = "off"
    /\ sinkerr = ""
    /\ printed = <<>>
    /\ stdout = <<>>


\* ------------------------------------------------------------ error sink

\* if err == io.EOF { ... os.Exit(0) } else { ... } : the two reactions.
ClassifyNeverTerminal(err) == "transient"
Classify(err) == IF err = EOF THEN "terminal" ELSE "transient"

\* One fmt.Printf / os.Stdout.Write call: literal text before the message
\* bytes, the message bytes, literal text after them.
Write(pre, body, post) == [pre |-> pre, body |-> body, post |-> post]

\* fmt.Printf("connecting to %s from %s...\n", ...)
ConnectingBanner == Write(<<"connecting to ", "url", "...", "\n">>, <<>>, <<>>)

\* fmt.Printf("successfully connected to %s\n\n", ...)
ConnectedBanner == Write(<<"successfully connected to ", "url", "\n\n">>, <<>>, <<>>)

\* fmt.Print("> ") and fmt.Printf("> ")
PromptOut == Write(<<>>, <<>>, <<"> ">>)

\* What follows the message in fmt.Printf("\r< %s\n> ", ...).
RenderTailNoPrompt == <<"\n">>
RenderTail == <<"\n", "> ">>

\* fmt.Printf("%s", string(msg)) / os.Stdout.Write(msg) in raw mode,
\* fmt.Printf("\r< %s\n> ", cyan(string(msg))) otherwise.
RenderOut(msg) ==
    IF raw THEN Write(<<>>, msg, <<>>) ELSE Write(<<"\r", "< ">>, msg, RenderTail)

\* printError (src/main.go) and the body of printErrors' loop (part_000),
\* first call: fmt.Fprintf(os.Stderr, ...), the closure notice on io.EOF and
\* the error line otherwise.  The process goes on running.
printErrorLine(err) ==
    /\ printed' = Append(printed, <<IF Classify(err) = "terminal" THEN "closed" ELSE "err", err>>)
    /\ UNCHANGED <<stdout, exit>>

\* printError and printErrors, what follows the line on stderr: os.Exit(0)
\* on io.EOF, else, outside raw mode, fmt.Printf("> ").
printErrorEnd(err) ==
    /\ IF Classify(err) = "terminal"
       THEN /\ exit' = ExitOK
            /\ UNCHANGED stdout
       ELSE /\ stdout' = IF raw THEN stdout ELSE Append(stdout, PromptOut)
            /\ UNCHANGED exit
    /\ UNCHANGED printed

\* ------------------------------------------------------------------ main

\* if err != nil { panic(err) }
DialFailedNever(err) == FALSE
DialFailed(err) == err # "nil"

\* A go statement.
Spawn(ts, t) == Append(ts, t)

\* ws, err := dial(...); defer ws.Close(); if err != nil { panic(err) }
\* On failure ws is nil: the panic runs the deferred ws.Close() on it and the
\* process aborts.
Dial ==
    /\ Running
    /\ mainpc = "dial"
    /\ \E err \in {"nil", ERR} :
          /\ ws' = IF err = "nil" THEN "conn" ELSE "nil"
          /\ IF DialFailed(err)
             THEN /\ mainpc' = "panic"
                  /\ nilCloses' = IF ws' = "nil" THEN nilCloses + 1 ELSE nilCloses
                  /\ closeCalls' = IF ws' = "nil" THEN closeCalls ELSE closeCalls + 1
                  /\ exit' = ExitAbort
             ELSE /\ mainpc' = "setup"
                  /\ UNCHANGED <<nilCloses, closeCalls, exit>>
    /\ stdout' = IF raw THEN stdout ELSE Append(stdout, ConnectingBanner)
    /\ UNCHANGED <<stdin, stdinOpen, linesRead, line, wg, chans, closed, started, chanCloses>>
    /\ UNCHANGED <<cfgVars, outVars, inVars, presVars, sinkVars, printed>>

\* The channels, the WaitGroup counter and, in interactive mode, go outLoop
\* and the first prompt.  part_000 makes in, errors (and out) and adds one to
\* the WaitGroup for each; main.go makes out only and adds one for outLoop.
Setup ==
    /\ Running
    /\ mainpc = "setup"
    /\ chans' = (IF variant = "chan" THEN {"in", "errors"} ELSE {})
                  \cup (IF raw THEN {} ELSE {"out"})
    /\ wg' = (IF variant = "chan" THEN 2 ELSE 0) + (IF raw THEN 0 ELSE 1)
    /\ outpc' = IF raw THEN outpc ELSE "recv"
    /\ mainpc' = IF raw THEN "goIn" ELSE "scan"
    /\ started' = IF raw THEN started ELSE Spawn(started, "outLoop")
    /\ stdout' = IF raw THEN stdout ELSE stdout \o <<ConnectedBanner, PromptOut>>
    /\ UNCHANGED <<stdin, stdinOpen, linesRead, line, closed, closeCalls, nilCloses, ws, chanCloses>>
    /\ UNCHANGED <<cfgVars, outmsg, outerr, conn, inVars, presVars, sinkVars, printed, exit>>

\* for scanner.Scan() { ... }: the next line, or the end of input; with
\* nothing typed and the stream open the scan blocks.
Scan ==
    /\ Running
    /\ mainpc = "scan"
    /\ stdin # <<>> \/ ~stdinOpen
    /\ IF stdin # <<>>
       THEN /\ line' = Head(stdin)
            /\ stdin' = Tail(stdin)
            /\ linesRead' = Append(linesRead, Head(stdin))
            /\ mainpc' = "send"
       ELSE /\ mainpc' = "goIn"
            /\ UNCHANGED <<stdin, stdinOpen, linesRead, line>>
    /\ UNCHANGED <<stdinOpen, wg, chans, closed, closeCalls, nilCloses, ws, started, chanCloses>>
    /\ UNCHANGED <<cfgVars, outVars, inVars, presVars, sinkVars, printed, stdout, exit>>

\* The end of the scanner loop's body: back to scanner.Scan().
LoopBackToSetup == "setup"
LoopBack == "scan"

\* fmt.Print("> ") after the send.
Prompt ==
    /\ Running
    /\ mainpc = "prompt"
    /\ mainpc' = LoopBack
    /\ stdout' = Append(stdout, PromptOut)
    /\ UNCHANGED <<stdin, stdinOpen, linesRead, line, wg, chans, closed, closeCalls, nilCloses>>
    /\ UNCHANGED <<ws, started, chanCloses>>
    /\ UNCHANGED <<cfgVars, outVars, inVars, presVars, sinkVars, printed, exit>>

\* go inLoop(...).  main.go adds one to the WaitGroup first and waits next;
\* part_000 goes on to start the presenter and the error sink.
GoInLoop ==
    /\ Running
    /\ mainpc = "goIn"
    /\ inpc' = "read"
    /\ wg' = IF variant = "direct" THEN wg + 1 ELSE wg
    /\ mainpc' = IF variant = "direct" THEN "wait" ELSE "goPres"
    /\ started' = Spawn(started, "inLoop")
    /\ UNCHANGED <<stdin, stdinOpen, linesRead, line, chans, closed, closeCalls, nilCloses>>
    /\ UNCHANGED <<ws, chanCloses>>
    /\ UNCHANGED <<cfgVars, outVars, buf, n, inerr, pending, nframes, netlog>>
    /\ UNCHANGED <<presVars, sinkVars, printed, stdout, exit>>

\* go printReceivedMessages(in)
GoPresenter ==
    /\ Running
    /\ mainpc = "goPres"
    /\ prespc' = "recv"
    /\ mainpc' = "goSink"
    /\ started' = Spawn(started, "printReceivedMessages")
    /\ UNCHANGED <<stdin, stdinOpen, linesRead, line, wg, chans, closed, closeCalls, nilCloses>>
    /\ UNCHANGED <<ws, chanCloses>>
    /\ UNCHANGED <<cfgVars, outVars, inVars, pn, psnap, rendered, pread, renderedFrom>>
    /\ UNCHANGED <<sinkVars, printed, stdout, exit>>

\* go printErrors(errors)
GoSink ==
    /\ Running
    /\ mainpc = "goSink"
    /\ sinkpc' = "recv"
    /\ mainpc' = "wait"
    /\ started' = Spawn(started, "printErrors")
    /\ UNCHANGED <<stdin, stdinOpen, linesRead, line, wg, chans, closed, closeCalls, nilCloses>>
    /\ UNCHANGED <<ws, chanCloses>>
    /\ UNCHANGED <<cfgVars, outVars, inVars, presVars, sinkerr, printed, stdout, exit>>

\* wg.Wait() returns at once when the counter is zero.
WaitReturnsAlways(w) == TRUE
WaitReturns(w) == w = 0

\* wg.Wait(): returns when the counter is zero, else main parks.  When main
\* returns, the deferred calls run (the closes, last ws.Close()) and the
\* process ends with code 0.
Wait ==
    /\ Running
    /\ mainpc = "wait"
    /\ IF WaitReturns(wg)
       THEN /\ mainpc' = "returned"
            /\ closed' = closed \cup chans
            /\ chanCloses' = chanCloses + Cardinality(chans)
            /\ closeCalls' = closeCalls + 1
            /\ exit' = ExitOK
       ELSE /\ mainpc' = "blocked"
            /\ UNCHANGED <<closed, chanCloses, closeCalls, exit>>
    /\ UNCHANGED <<stdin, stdinOpen, linesRead, line, wg, chans, nilCloses, ws, started>>
    /\ UNCHANGED <<cfgVars, outVars, inVars, presVars, sinkVars, printed, stdout>>


\* --------------------------------------------------------------- outLoop

\* Where outLoop goes after handing over (or printing) a write error: the
\* next iteration of its range loop.
OutAfterErrRetry == "write"
OutAfterErr == "recv"

\* for msg := range out, together with main's out <- []byte(scanner.Text()):
\* the channel is unbuffered, so the send and the receive are one step.  On a
\* closed channel the loop ends (main.go: wg.Done(), which wakes a parked
\* main when the counter reaches zero).
OutLoopRange ==
    /\ Running
    /\ outpc = "recv"
    /\ IF "out" \in closed
       THEN /\ outpc' = "done"
            /\ wg' = IF variant = "direct" THEN wg - 1 ELSE wg
            /\ mainpc' = IF mainpc = "blocked" /\ wg' = 0 THEN "wait" ELSE mainpc
            /\ UNCHANGED outmsg
       ELSE /\ mainpc = "send"
            /\ outmsg' = line
            /\ outpc' = "write"
            /\ mainpc' = "prompt"
            /\ UNCHANGED wg
    /\ UNCHANGED <<stdin, stdinOpen, linesRead, line, chans, closed, closeCalls, nilCloses>>
    /\ UNCHANGED <<ws, started, chanCloses>>
    /\ UNCHANGED <<cfgVars, outerr, conn, inVars, presVars, sinkVars, printed, stdout, exit>>

\* _, err := ws.Write(msg)
OutLoopWrite ==
    /\ Running
    /\ outpc = "write"
    /\ \E res \in {"ok", ERR} :
          /\ conn' = Append(conn, <<outmsg, res>>)
          /\ IF res = "ok"
             THEN /\ outpc' = "recv"
                  /\ UNCHANGED outerr
             ELSE /\ outpc' = "err"
                  /\ outerr' = res
    /\ UNCHANGED <<cfgVars, mainVars, outmsg, inVars, presVars, sinkVars, printed, stdout, exit>>

\* part_000: errors <- err, together with the receive of printErrors.
OutLoopSendErr ==
    /\ Running
    /\ variant = "chan"
    /\ outpc = "err"
    /\ sinkpc = "recv"
    /\ sinkerr' = outerr
    /\ sinkpc' = "handle"
    /\ outpc' = OutAfterErr
    /\ outerr' = ""
    /\ UNCHANGED <<cfgVars, mainVars, outmsg, conn, inVars, presVars, printed, stdout, exit>>

\* main.go: printError(err), called by outLoop itself: the line on stderr.
OutLoopPrintError ==
    /\ Running
    /\ variant = "direct"
    /\ outpc = "err"
    /\ printErrorLine(outerr)
    /\ outpc' = "errline"
    /\ UNCHANGED <<cfgVars, mainVars, outmsg, outerr, conn, inVars, presVars, sinkVars>>

\* main.go: the rest of printError(err) in outLoop, and back to the loop.
OutLoopPrintErrorEnd ==
    /\ Running
    /\ variant = "direct"
    /\ outpc = "errline"
    /\ printErrorEnd(outerr)
    /\ outpc' = OutAfterErr
    /\ outerr' = ""
    /\ UNCHANGED <<cfgVars, mainVars, outmsg, conn, inVars, presVars, sinkVars>>

\* ---------------------------------------------------------------- inLoop

\* Where inLoop goes after a read error: continue, the next read.
InAfterErrReturn == "done"
InAfterErr == "read"

\* Whether a read has already returned io.EOF (the remote end has closed:
\* every later read returns it again).
RemoteClosed == \E i \in 1..Len(netlog) : netlog[i] = <<"err", EOF>>

\* msg with its first Len(chunk) bytes overwritten by chunk.
Fill(b, chunk) == [i \in 1..Len(b) |-> IF i <= Len(chunk) THEN chunk[i] ELSE b[i]]

\* The lengths of the frames the server sends: shorter than the buffer, as
\* long as the buffer, longer than the buffer.
FrameLens == 1..MaxFrameLen

\* The byte counts a read into a buffer of cap bytes can return with a nil
\* error when avail bytes are pending.  ws.Read is an io.Reader of a package
\* outside this repository: all the call relies on is 0 < n <= len(msg) and
\* n no more than what is there, so every such count is an outcome, the
\* short ones included.
ReadCounts(cap, avail) == 1..Min(cap, avail)

\* A read of the pending frame data f into the buffer: some first bytes of
\* it, at most len(msg), the rest stays on the connection for the next read.
Deliver(f) ==
    \E k \in ReadCounts(BufSize, Len(f)) :
        /\ buf' = Fill(buf, SubSeq(f, 1, k))
        /\ n' = k
        /\ pending' = SubSeq(f, k + 1, Len(f))
        /\ netlog' = Append(netlog, <<"ok", SubSeq(f, 1, k)>>)
        /\ inpc' = "msg"
        /\ inerr' = ""

Fail(e) ==
    /\ inerr' = e
    /\ netlog' = Append(netlog, <<"err", e>>)
    /\ inpc' = "err"
    /\ UNCHANGED <<buf, n, pending, nframes>>

\* n, err := ws.Read(msg): bytes of the rest of the current frame or of the
\* next frame, a transient error, or io.EOF.  An error can come at any read,
\* also with the rest of a frame outstanding (the connection fails or the
\* peer goes away inside a frame); after io.EOF nothing else comes.
InLoopRead ==
    /\ Running
    /\ inpc = "read"
    /\ Len(netlog) + Len(linesRead) < MaxReads
    /\ \/ /\ ~RemoteClosed
          /\ pending # <<>>
          /\ Deliver(pending)
          /\ UNCHANGED nframes
       \/ /\ ~RemoteClosed
          /\ pending = <<>>
          /\ \E len \in FrameLens :
                /\ nframes' = nframes + 1
                /\ Deliver(Frame(nframes + 1, len))
       \/ /\ ~RemoteClosed
          /\ Fail(ERR)
       \/ Fail(EOF)
    /\ UNCHANGED <<cfgVars, mainVars, outVars, presVars, sinkVars, printed, stdout, exit>>

\* part_000: errors <- err, together with the receive of printErrors.
InLoopSendErr ==
    /\ Running
    /\ variant = "chan"
    /\ inpc = "err"
    /\ sinkpc = "recv"
    /\ sinkerr' = inerr
    /\ sinkpc' = "handle"
    /\ inpc' = InAfterErr
    /\ inerr' = ""
    /\ UNCHANGED <<cfgVars, mainVars, outVars, buf, n, pending, nframes, netlog>>
    /\ UNCHANGED <<presVars, printed, stdout, exit>>

\* main.go: printError(err), called by inLoop itself: the line on stderr.
InLoopPrintError ==
    /\ Running
    /\ variant = "direct"
    /\ inpc = "err"
    /\ printErrorLine(inerr)
    /\ inpc' = "errline"
    /\ UNCHANGED <<cfgVars, mainVars, outVars, buf, n, inerr, pending, nframes, netlog>>
    /\ UNCHANGED <<presVars, sinkVars>>

\* main.go: the rest of printError(err) in inLoop, and continue.
InLoopPrintErrorEnd ==
    /\ Running
    /\ variant = "direct"
    /\ inpc = "errline"
    /\ printErrorEnd(inerr)
    /\ inpc' = InAfterErr
    /\ inerr' = ""
    /\ UNCHANGED <<cfgVars, mainVars, outVars, buf, n, pending, nframes, netlog>>
    /\ UNCHANGED <<presVars, sinkVars>>

\* msg[:n]: the message inLoop emits is the part of the buffer the read
\* filled.
MsgWhole(b, k) == b
MsgSlice(b, k) == SubSeq(b, 1, k)

\* part_000: in <- msg[:n], together with the receive of
\* printReceivedMessages.  What crosses the channel is a slice of the reused
\* buffer, not a copy.
InLoopSendMsg ==
    /\ Running
    /\ variant = "chan"
    /\ inpc = "msg"
    /\ prespc = "recv"
    /\ pn' = Len(MsgSlice(buf, n))
    /\ psnap' = MsgSlice(buf, n)
    /\ pread' = Len(netlog)
    /\ prespc' = "render"
    /\ inpc' = "read"
    /\ UNCHANGED <<cfgVars, mainVars, outVars, buf, n, inerr, pending, nframes, netlog>>
    /\ UNCHANGED <<rendered, renderedFrom, sinkVars, printed, stdout, exit>>

\* main.go: printReceivedMessage(msg[:n]), called by inLoop itself.
InLoopPrintMsg ==
    /\ Running
    /\ variant = "direct"
    /\ inpc = "msg"
    /\ rendered' = Append(rendered, MsgSlice(buf, n))
    /\ renderedFrom' = Append(renderedFrom, Len(netlog))
    /\ stdout' = Append(stdout, RenderOut(MsgSlice(buf, n)))
    /\ inpc' = "read"
    /\ UNCHANGED <<cfgVars, mainVars, outVars, buf, n, inerr, pending, nframes, netlog>>
    /\ UNCHANGED <<prespc, pn, psnap, pread, sinkVars, printed, exit>>

\* ------------------------------------------------------------- presenter

\* What string(msg) can yield for a slice of k bytes sent holding snap, with
\* the buffer now holding b: inLoop writes the buffer without synchronising
\* with the presenter, so each byte read is the one sent or the one there now.
RacyViews(snap, b, k) == {s \in [1..k -> {snap[i] : i \in 1..k} \cup {b[i] : i \in 1..k}] :
                             \A i \in 1..k : s[i] \in {snap[i], b[i]}}

\* part_000: the body of printReceivedMessages' loop, string(msg) printed.
PrintReceivedMessages ==
    /\ Running
    /\ prespc = "render"
    /\ \E s \in RacyViews(psnap, buf, pn) :
          /\ rendered' = Append(rendered, s)
          /\ stdout' = Append(stdout, RenderOut(s))
    /\ renderedFrom' = Append(renderedFrom, pread)
    /\ prespc' = "recv"
    /\ pn' = 0
    /\ psnap' = <<>>
    /\ pread' = 0
    /\ UNCHANGED <<cfgVars, mainVars, outVars, inVars, sinkVars, printed, exit>>

\* part_000: the body of printErrors' loop, the line on stderr.
PrintErrors ==
    /\ Running
    /\ sinkpc = "handle"
    /\ printErrorLine(sinkerr)
    /\ sinkpc' = "errline"
    /\ UNCHANGED <<cfgVars, mainVars, outVars, inVars, presVars, sinkerr>>

\* part_000: the rest of the body of printErrors' loop, and back to the
\* range over errors.
PrintErrorsEnd ==
    /\ Running
    /\ sinkpc = "errline"
    /\ printErrorEnd(sinkerr)
    /\ sinkpc' = "recv"
    /\ sinkerr' = ""
    /\ UNCHANGED <<cfgVars, mainVars, outVars, inVars, presVars>>

\* ---------------------------------------------------- the Go scheduler

\* Every goroutine is parked on a channel or on the WaitGroup and none can be
\* woken: nobody is in a read, a write or a scan.
MainAsleep == \/ mainpc = "blocked"
              \/ mainpc = "send" /\ outpc # "recv"
OutAsleep  == \/ outpc \in {"off", "done"}
              \/ outpc = "recv" /\ mainpc # "send" /\ "out" \notin closed
              \/ outpc = "err" /\ variant = "chan" /\ sinkpc # "recv"
InAsleep   == \/ inpc \in {"off", "done"}
              \/ inpc = "err" /\ variant = "chan" /\ sinkpc # "recv"
              \/ inpc = "msg" /\ variant = "chan" /\ prespc # "recv"
PresAsleep == \/ prespc = "off"
              \/ prespc = "recv" /\ inpc # "msg"
SinkAsleep == \/ sinkpc = "off"
              \/ sinkpc = "recv" /\ inpc # "err" /\ outpc # "err"
AllAsleep  == MainAsleep /\ OutAsleep /\ InAsleep /\ PresAsleep /\ SinkAsleep

\* With every goroutine asleep a Go program is stuck in its blocked sends
\* (out <- ... in main, errors <- err in outLoop).  A build whose runtime
\* checks for this ends the process with "all goroutines are asleep -
\* deadlock!", exit code 2; a build that links cgo (the net package's
\* resolver) does not check and hangs.  Both outcomes are possible.
Deadlock ==
    /\ Running
    /\ AllAsleep
    /\ exit' = ExitAbort
    /\ UNCHANGED <<cfgVars, mainVars, outVars, inVars, presVars, sinkVars, printed, stdout>>

Next ==
    \/ Dial
    \/ Setup
    \/ Scan
    \/ Prompt
    \/ GoInLoop
    \/ GoPresenter
    \/ GoSink
    \/ Wait
    \/ OutLoopRange
    \/ OutLoopWrite
    \/ OutLoopSendErr
    \/ OutLoopPrintError
    \/ OutLoopPrintErrorEnd
    \/ InLoopRead
    \/ InLoopSendErr
    \/ InLoopPrintError
    \/ InLoopPrintErrorEnd
    \/ InLoopSendMsg
    \/ InLoopPrintMsg
    \/ PrintReceivedMessages
    \/ PrintErrors
    \/ PrintErrorsEnd
    \/ Deadlock

Spec == Init /\ [][Next]_vars

\* The steps each goroutine takes on its own, and the channel handoffs.
MainStep == Dial \/ Setup \/ Scan \/ Prompt \/ GoInLoop \/ GoPresenter \/ GoSink \/ Wait
OutLoopStep == OutLoopWrite \/ OutLoopPrintError \/ OutLoopPrintErrorEnd
InLoopStep == InLoopPrintError \/ InLoopPrintErrorEnd \/ InLoopPrintMsg
PrintErrorsStep == PrintErrors \/ PrintErrorsEnd

\* The Go scheduler runs every runnable goroutine and completes a channel
\* handoff whose two sides are ready; a write on the connection returns, and
\* so does a scan with a line or the end of input waiting.  Nothing makes the
\* network deliver (InLoopRead), and a stuck program need not be ended by the
\* runtime (Deadlock).
Fairness ==
    /\ WF_vars(MainStep)
    /\ WF_vars(OutLoopStep)
    /\ WF_vars(InLoopStep)
    /\ WF_vars(PrintReceivedMessages)
    /\ WF_vars(PrintErrorsStep)
    /\ WF_vars(OutLoopRange)
    /\ WF_vars(OutLoopSendErr)
    /\ WF_vars(InLoopSendErr)
    /\ WF_vars(InLoopSendMsg)

FairSpec == Spec /\ Fairness


\* ---------------------------------------------------------- observations

IsPrefix(a, b) == Len(a) <= Len(b) /\ \A i \in 1..Len(a) : a[i] = b[i]

\* The messages handed to ws.Write, in call order.
Written == [i \in 1..Len(conn) |-> conn[i][1]]

RECURSIVE OkReads(_)
\* The byte sequences the successful reads returned, in read order.
OkReads(log) ==
    IF log = <<>> THEN <<>>
    ELSE IF Head(log)[1] = "ok" THEN <<Head(log)[2]>> \o OkReads(Tail(log))
    ELSE OkReads(Tail(log))

\* Transport errors emitted so far: the failed reads and the failed writes.
Emitted == Cardinality({i \in 1..Len(netlog) : netlog[i][1] = "err"})
             + Cardinality({i \in 1..Len(conn) : conn[i][2] # "ok"})

\* The place in netlog of the k-th successful read.
OkIndex(k) ==
    CHOOSE i \in 1..Len(netlog) :
        netlog[i][1] = "ok" /\ Len(OkReads(SubSeq(netlog, 1, i))) = k

\* How many go statements have started task t.
Count(ts, t) == Cardinality({i \in 1..Len(ts) : ts[i] = t})

RECURSIVE Flatten(_)
\* The concatenation of a sequence of byte sequences.
Flatten(ss) == IF ss = <<>> THEN <<>> ELSE Head(ss) \o Flatten(Tail(ss))

\* The message bytes on standard output, in the order written.
StdoutBytes == Flatten([i \in 1..Len(stdout) |-> stdout[i].body])

\* A write to standard output whose last bytes are the prompt "> ".
EndsWithPrompt(w) == w.post # <<>> /\ w.post[Len(w.post)] = "> "

\* The writes to standard output that are exactly the prompt.
PromptWrites == {i \in 1..Len(stdout) : stdout[i] = PromptOut}

\* The channels a task is about to send on: inLoop on in or errors, outLoop
\* on errors, main (the operator input loop) on out.
SendingOn ==
    (IF variant = "chan" /\ inpc = "msg" THEN {"in"} ELSE {})
      \cup (IF variant = "chan" /\ (inpc = "err" \/ outpc = "err") THEN {"errors"} ELSE {})
      \cup (IF mainpc = "send" THEN {"out"} ELSE {})

\* main is in, or past, the operator input loop.
InInputLoop == mainpc \in {"scan", "send", "prompt"}
EndOfInput  == mainpc \in {"goIn", "goPres", "goSink", "wait", "blocked", "returned"}

\* Some goroutine can take a step of the program.
Progress ==
    \/ Dial \/ Setup \/ Scan \/ Prompt \/ GoInLoop \/ GoPresenter \/ GoSink \/ Wait
    \/ OutLoopRange \/ OutLoopWrite \/ OutLoopSendErr
    \/ OutLoopPrintError \/ OutLoopPrintErrorEnd
    \/ InLoopRead \/ InLoopSendErr \/ InLoopPrintError \/ InLoopPrintErrorEnd
    \/ InLoopSendMsg \/ InLoopPrintMsg \/ PrintReceivedMessages
    \/ PrintErrors \/ PrintErrorsEnd

\* ----------------------------------------------------------------- claims

\* C1: once a read on the connection has returned io.EOF, the process
\* eventually ends with exit code 0, in raw and in interactive mode, whatever
\* outLoop is doing (checked under FairSpec).
C1_RemoteCloseExits == RemoteClosed ~> (exit = ExitOK)

\* C1 witness: the process has exited with code 0 on a remote closure while
\* outLoop was still blocked handing over a write error.
C1_Witness ==
    /\ exit = ExitOK
    /\ RemoteClosed
    /\ ~raw
    /\ outpc = "err"

\* C2: in interactive mode the inbound reader is active while the operator
\* input loop is reading lines.
C2_InboundActiveWhileScanning == (~raw /\ InInputLoop) => inpc # "off"

\* C3: the messages written to the connection are a prefix of the lines read
\* from standard input: one write per line, same content, same order.
C3_WritesPrefixOfLines == IsPrefix(Written, linesRead)

\* C3 witness: two different lines have been written, the first write failed,
\* and inbound messages and errors have been handled in between.
C3_Witness ==
    /\ Len(conn) >= 2
    /\ conn[1][1] # conn[2][1]
    /\ conn[1][2] = ERR
    /\ Len(rendered) >= 1
    /\ Len(printed) >= 2

\* C4: after a successful dial the process only ever ends as the error
\* sink's reaction to io.EOF: in a terminated state the exit code is 0 and the
\* closure notice has been printed (another goroutine may have printed an
\* error between the notice and the exit).
C4_OnlyRemoteCloseTerminates ==
    (exit # "none" /\ mainpc # "panic") =>
        /\ exit = ExitOK
        /\ \E i \in 1..Len(printed) : printed[i] = <<"closed", EOF>>

\* C5: every transport error emitted by inLoop or outLoop is eventually
\* printed, unless the process ends on a remote closure first (checked under
\* FairSpec).
C5_ErrorsEventuallyPrinted ==
    (Emitted > Len(printed)) ~> (Emitted = Len(printed) \/ exit = ExitOK)

\* C6: in the channel-based pump the operator input loop and outLoop never
\* end up blocked for good: while main has a line to hand to outLoop, some
\* goroutine can still take a step.
C6_OutboundNeverStuck ==
    (Running /\ variant = "chan" /\ mainpc = "send") => ENABLED Progress

\* C7 as stated: a transient read error sends inLoop back to its read, and
\* every successful read is eventually rendered: whenever there are more
\* successful reads than renderings, the renderings catch up (checked under
\* FairSpec).
C7_Original ==
    /\ (inpc = "err" /\ inerr = ERR) ~> (inpc = "read")
    /\ (Len(OkReads(netlog)) > Len(rendered)) ~> (Len(OkReads(netlog)) <= Len(rendered))

\* C7 as amended: a transient read error sends inLoop back to its read, and
\* every successful read is eventually rendered unless the process ends on a
\* remote closure first: whenever there are more successful reads than
\* renderings, the renderings catch up or the process exits on the closure
\* (checked under FairSpec).
C7_ReaderSurvivesErrors ==
    /\ (inpc = "err" /\ inerr = ERR) ~> (inpc = "read")
    /\ (Len(OkReads(netlog)) > Len(rendered))
          ~> (Len(OkReads(netlog)) <= Len(rendered) \/ exit = ExitOK)

\* C7 witness: two reads in a row failed with a transient error, the next
\* one succeeded and its message has been rendered.
C7_Witness ==
    /\ Len(netlog) >= 3
    /\ netlog[1] = <<"err", ERR>>
    /\ netlog[2] = <<"err", ERR>>
    /\ netlog[3][1] = "ok"
    /\ Len(rendered) >= 1

\* C8: the k-th message rendered consists of exactly the bytes the k-th
\* successful read returned.
C8_RenderedBytesExact ==
    \A k \in 1..Len(rendered) : rendered[k] = OkReads(netlog)[k]

\* C9: in interactive mode, once standard input has reached its end, main's
\* wait completes, main returns and the process exits with code 0 (checked
\* under FairSpec).
C9_EndOfInputShutdown ==
    (~raw /\ EndOfInput) ~> (mainpc = "returned" /\ exit = ExitOK)

\* C10: after a successful dial, in every terminated state the connection
\* has been closed exactly once.
C10_ClosedExactlyOnce ==
    (exit # "none" /\ mainpc # "panic") => closeCalls = 1

\* C11: when the dial fails the process aborts with a non-zero status and no
\* task has been started: no go statement has run, no goroutine and no input
\* loop is anywhere, nothing was read from standard input and no read or
\* write was attempted on the connection.
C11_DialFailureAbortsBeforeTasks ==
    ws = "nil" =>
        /\ exit = ExitAbort
        /\ mainpc = "panic"
        /\ started = <<>>
        /\ outpc = "off" /\ inpc = "off" /\ prespc = "off" /\ sinkpc = "off"
        /\ linesRead = <<>>
        /\ conn = <<>>
        /\ netlog = <<>>

\* C11 witness: the dial has failed with a line waiting on standard input.
C11_Witness == ws = "nil" /\ exit = ExitAbort /\ stdin # <<>>

\* C12: in raw mode no outLoop and no input loop is ever started, nothing has
\* been read from standard input, nothing has been written to the connection,
\* and standard output holds the bytes of the messages received, in order,
\* and nothing else (no banner, no prompt, no marker).
C12_RawModeOutputIsMessages ==
    raw =>
        /\ Count(started, "outLoop") = 0
        /\ outpc = "off"
        /\ ~InInputLoop
        /\ linesRead = <<>>
        /\ conn = <<>>
        /\ \A i \in 1..Len(stdout) : stdout[i].pre = <<>> /\ stdout[i].post = <<>>
        /\ IsPrefix(StdoutBytes, Flatten(OkReads(netlog)))

\* C13: each successful read is rendered exactly once and in read order: the
\* k-th rendering comes from the k-th successful read, and, every message on
\* the wire being different from every other, no message is shown twice.
C13_RenderedOncePerReadInOrder ==
    /\ Len(renderedFrom) <= Len(OkReads(netlog))
    /\ \A k \in 1..Len(renderedFrom) : renderedFrom[k] = OkIndex(k)
    /\ \A j, k \in 1..Len(rendered) : j < k => rendered[j] # rendered[k]

\* C14: after a successful dial the tasks start in the order error sink,
\* inbound reader, presenter, and only then the outbound writer and the
\* operator input loop; the error sink runs in every state in which inLoop
\* or outLoop can emit a transport error.
C14_StartOrder ==
    LET StartRank(t) == CASE t = "printErrors" -> 1
                          [] t = "inLoop" -> 2
                          [] t = "printReceivedMessages" -> 3
                          [] t = "outLoop" -> 4
    IN  /\ \A i, j \in 1..Len(started) :
              i < j => StartRank(started[i]) < StartRank(started[j])
        /\ InInputLoop => Count(started, "inLoop") = 1
        /\ (variant = "chan" /\ (inpc \in {"read", "err"} \/ outpc \in {"write", "err"}))
              => sinkpc # "off"

\* C15: inLoop never waits for the presenter: once the presenter runs,
\* whenever inLoop holds a message it has read it can hand the message over
\* at once.
C15_ReaderNeverWaitsForPresenter ==
    (Running /\ inpc = "msg" /\ (variant = "chan" => prespc # "off"))
        => ENABLED (InLoopSendMsg \/ InLoopPrintMsg)

\* C16: at most one inLoop and at most one outLoop is ever started, every
\* read on the connection is made by that inLoop and every write by that
\* outLoop.
C16_SingleReaderSingleWriter ==
    /\ Count(started, "inLoop") <= 1
    /\ Count(started, "outLoop") <= 1
    /\ (inpc # "off" \/ netlog # <<>>) => Count(started, "inLoop") = 1
    /\ (outpc # "off" \/ conn # <<>>) => Count(started, "outLoop") = 1

\* C16 witness: lines have been written and frames read on one connection.
C16_Witness ==
    /\ conn # <<>>
    /\ Len(netlog) >= 2
    /\ outpc # "off"
    /\ inpc # "off"

\* C17: in interactive mode, from the first prompt on, every write to
\* standard output ends with the prompt "> ".
C17_PromptNeverStale ==
    (~raw /\ PromptWrites # {}) =>
        \A i \in 1..Len(stdout) :
            (\E p \in PromptWrites : p <= i) => EndsWithPrompt(stdout[i])

\* C17 witness: after the first prompt a line was accepted, a transient error
\* was printed and a message was rendered last.
C17_Witness ==
    /\ ~raw
    /\ linesRead # <<>>
    /\ \E i \in 1..Len(printed) : printed[i] = <<"err", ERR>>
    /\ stdout # <<>>
    /\ stdout[Len(stdout)].body # <<>>

C19_NoSendOnClosedNoDoubleClose ==
    /\ SendingOn \cap closed = {}
    /\ closed \subseteq chans
    /\ chanCloses = Cardinality(closed)

\* C19 witness: main is parked in wg.Wait() while inLoop and outLoop each
\* have something to send.
C19_Witness ==
    /\ mainpc = "blocked"
    /\ inpc = "msg"
    /\ outpc = "err"
    /\ {"in", "errors"} \subseteq SendingOn

\* C20: Close is only ever called on a handle a successful dial returned,
\* never on the nil handle of a failed dial.
C20_CloseOnlyOnDialedHandle ==
    /\ nilCloses = 0
    /\ closeCalls > 0 => ws = "conn"

====
